---- MODULE Spec2Model ----
(***************************************************************************)
(* Model of paasta_tools/paasta_cli/cmds/status.py: the "paasta status"   *)
(* command.  Python strings are sequences of one-character strings, so    *)
(* that split, rfind, replace and slicing are computed as Python computes *)
(* them.  A fixed literal of the output (a format string's constant text, *)
(* a colour escape) is one symbol or a field of an output record.         *)
(***************************************************************************)
EXTENDS Integers, Sequences, FiniteSets, TLC

VARIABLES
    service_name,       \* figure_out_service_name(args)
    deployments_json,   \* load_deployments_json(...): raw key -> docker_image
    deploy_info,        \* read_deploy(...): [present, pipeline]
    clusters_arg,       \* args.clusters: [none, text]
    verbose,            \* args.verbose
    pc,                 \* position of the running call
    exc,                \* uncaught exception that ended the call, or "none"
    exit_code,          \* status passed to exit(), or -1
    actual_deployments, \* namespace -> sha
    deploy_pipeline,    \* list of 'cluster.instance'
    cluster_filter,     \* [none, list]
    deployed_clusters,  \* list of cluster names
    ci,                 \* index of report_status's loop over deployed_clusters
    ni,                 \* index of report_status_for_cluster's loop
    stdout,             \* lines printed, in order
    stderr,             \* texts written to sys.stderr, in order
    probes,             \* calls of execute_paasta_serviceinit_on_remote_master
    called              \* functions of this module entered so far

vars == <<service_name, deployments_json, deploy_info, clusters_arg, verbose,
          pc, exc, exit_code, actual_deployments, deploy_pipeline,
          cluster_filter, deployed_clusters, ci, ni, stdout, stderr, probes,
          called>>

----------------------------------------------------------------------------
(* Bounds of the checked inputs *)

MaxSteps == 4
MaxKeys == 3
MaxTargets == 3
MaxActual == 2
MaxFilter == 2
FlowSteps == 2
FlowKeys == 2

----------------------------------------------------------------------------
(* Python string and list operations *)

Min(a, b) == IF a < b THEN a ELSE b

\* s.split(sep) for a one-character separator
RECURSIVE Split(_, _)
Split(s, sep) ==
    IF \A i \in 1..Len(s) : s[i] # sep
    THEN <<s>>
    ELSE LET i == CHOOSE k \in 1..Len(s) :
                      s[k] = sep /\ \A j \in 1..(k - 1) : s[j] # sep
         IN  <<SubSeq(s, 1, i - 1)>> \o Split(SubSeq(s, i + 1, Len(s)), sep)

\* s.rfind(ch): 0-based index of the last occurrence, -1 when there is none
RFind(s, ch) ==
    IF \E i \in 1..Len(s) : s[i] = ch
    THEN (CHOOSE i \in 1..Len(s) :
              s[i] = ch /\ \A j \in (i + 1)..Len(s) : s[j] # ch) - 1
    ELSE -1

\* s[k:] for a 0-based k >= 0
SliceFrom(s, k) == SubSeq(s, k + 1, Len(s))

\* s[:n]
SliceTo(s, n) == SubSeq(s, 1, Min(n, Len(s)))

OccursAt(s, pat, i) ==
    /\ i + Len(pat) - 1 <= Len(s)
    /\ \A j \in 1..Len(pat) : s[i + j - 1] = pat[j]

\* s.find(pat): 0-based index of the first occurrence, -1 when there is none
Find(s, pat) ==
    IF \E i \in 1..Len(s) : OccursAt(s, pat, i)
    THEN (CHOOSE i \in 1..Len(s) :
              OccursAt(s, pat, i) /\ \A j \in 1..(i - 1) : ~OccursAt(s, pat, j)) - 1
    ELSE -1

\* s.replace(pat, '', 1)
ReplaceFirst(s, pat) ==
    LET k == Find(s, pat)
    IN  IF k = -1 THEN s
        ELSE SubSeq(s, 1, k) \o SubSeq(s, k + Len(pat) + 1, Len(s))

\* sep.join(list)
RECURSIVE Join(_, _)
Join(list, sep) ==
    IF list = <<>> THEN <<>>
    ELSE IF Len(list) = 1 THEN list[1]
    ELSE list[1] \o <<sep>> \o Join(Tail(list), sep)

\* the characters str.isspace() holds for: space, \t, \n, \r, VT (\x0b,
\* written as the character itself) and FF (\x0c)
IsWhitespace(c) == c \in {" ", "\t", "\n", "\r", "", "\f"}

\* s.rstrip()
RECURSIVE RStrip(_)
RStrip(s) ==
    IF s # <<>> /\ IsWhitespace(s[Len(s)])
    THEN RStrip(SubSeq(s, 1, Len(s) - 1))
    ELSE s

\* x in list
InList(x, list) == \E i \in 1..Len(list) : list[i] = x

\* "%s.%s" % (cluster, instance)
FormatTarget(cluster, instance) == cluster \o <<".">> \o instance

----------------------------------------------------------------------------
(* Literals *)

PAASTA_PREFIX == <<"p", "a", "a", "s", "t", "a", "-">>

ITEST == <<"i", "t", "e", "s", "t">>

SECURITY_CHECK == <<"s", "e", "c", "u", "r", "i", "t", "y", "-",
                    "c", "h", "e", "c", "k">>

\* paasta_tools.utils.DEPLOY_PIPELINE_NON_DEPLOY_STEPS
DEPLOY_PIPELINE_NON_DEPLOY_STEPS == {ITEST, SECURITY_CHECK}

\* the constant text of report_bogus_filters's warning, as one symbol
BOGUS_HEADER == <<"\nWarning: The following clusters in the filter look bogus, this service\nis not deployed to the following cluster(s):\n">>

\* number of characters of the sha that report_status_for_cluster shows
ShaDisplayLen == 8

Line(kind, text, color) == [kind |-> kind, text |-> text, color |-> color]

----------------------------------------------------------------------------
(* get_planned_deployments *)

\* mutant of SetDefaultAppend: an instance already listed is not listed again
SetDefaultAppendOnce(cluster_dict, cluster, instance) ==
    IF \E i \in 1..Len(cluster_dict) : cluster_dict[i].cluster = cluster
    THEN [i \in 1..Len(cluster_dict) |->
             IF /\ cluster_dict[i].cluster = cluster
                /\ ~InList(instance, cluster_dict[i].instances)
             THEN [cluster_dict[i] EXCEPT !.instances = Append(@, instance)]
             ELSE cluster_dict[i]]
    ELSE Append(cluster_dict, [cluster |-> cluster, instances |-> <<instance>>])

\* cluster_dict.setdefault(cluster, []).append(instance) on an OrderedDict,
\* kept as the list of its items in insertion order
SetDefaultAppend(cluster_dict, cluster, instance) ==
    IF \E i \in 1..Len(cluster_dict) : cluster_dict[i].cluster = cluster
    THEN [i \in 1..Len(cluster_dict) |->
             IF cluster_dict[i].cluster = cluster
             THEN [cluster_dict[i] EXCEPT !.instances = Append(@, instance)]
             ELSE cluster_dict[i]]
    ELSE Append(cluster_dict, [cluster |-> cluster, instances |-> <<instance>>])

\* a namespace is a deploy step unless it is one of the non-deploy steps
IsDeployStep(namespace) == namespace \notin DEPLOY_PIPELINE_NON_DEPLOY_STEPS

\* mutant of BuildClusterDict: namespace.split('.', 1), which cuts at the
\* first '.' only and accepts a namespace with more than one
RECURSIVE BuildClusterDictFirstDot(_, _, _)
BuildClusterDictFirstDot(pipeline, i, cluster_dict) ==
    IF i > Len(pipeline) THEN [ok |-> TRUE, val |-> cluster_dict]
    ELSE LET namespace == pipeline[i]
             parts == Split(namespace, ".")
         IN  IF IsDeployStep(namespace)
             THEN IF Len(parts) < 2
                  THEN [ok |-> FALSE, val |-> <<>>]
                  ELSE BuildClusterDictFirstDot(pipeline, i + 1,
                           SetDefaultAppend(cluster_dict, parts[1],
                               SubSeq(namespace, Len(parts[1]) + 2,
                                      Len(namespace))))
             ELSE BuildClusterDictFirstDot(pipeline, i + 1, cluster_dict)

\* the first loop: [ok, val]; ok is FALSE when the unpacking of
\* namespace.split('.') raises ValueError
RECURSIVE BuildClusterDict(_, _, _)
BuildClusterDict(pipeline, i, cluster_dict) ==
    IF i > Len(pipeline) THEN [ok |-> TRUE, val |-> cluster_dict]
    ELSE LET namespace == pipeline[i]
             parts == Split(namespace, ".")
         IN  IF IsDeployStep(namespace)
             THEN IF Len(parts) # 2
                  THEN [ok |-> FALSE, val |-> <<>>]
                  ELSE BuildClusterDict(pipeline, i + 1,
                           SetDefaultAppend(cluster_dict, parts[1], parts[2]))
             ELSE BuildClusterDict(pipeline, i + 1, cluster_dict)

\* the second loop: the targets yielded, cluster by cluster
RECURSIVE YieldTargets(_)
YieldTargets(cluster_dict) ==
    IF cluster_dict = <<>> THEN <<>>
    ELSE LET item == cluster_dict[1]
         IN  [k \in 1..Len(item.instances) |->
                  FormatTarget(item.cluster, item.instances[k])]
             \o YieldTargets(Tail(cluster_dict))

\* list(get_planned_deployments(deploy_info)): [ok, val]
GetPlannedDeployments(pipeline) ==
    LET built == BuildClusterDict(pipeline, 1, <<>>)
    IN  IF built.ok
        THEN [ok |-> TRUE, val |-> YieldTargets(built.val)]
        ELSE [ok |-> FALSE, val |-> <<>>]

----------------------------------------------------------------------------
(* list_deployed_clusters *)

\* namespace in actual_deployments
IsDeployed(namespace, actual) == namespace \in DOMAIN actual

\* mutant of ListDeployedFrom: without the test `cluster_name not in
\* deployed_clusters`
RECURSIVE ListDeployedFromNoTest(_, _, _, _)
ListDeployedFromNoTest(pipeline, actual, i, deployed) ==
    IF i > Len(pipeline) THEN [ok |-> TRUE, val |-> deployed]
    ELSE LET namespace == pipeline[i]
             parts == Split(namespace, ".")
         IN  IF Len(parts) # 2
             THEN [ok |-> FALSE, val |-> <<>>]
             ELSE IF IsDeployed(namespace, actual)
                  THEN ListDeployedFromNoTest(pipeline, actual, i + 1,
                                              Append(deployed, parts[1]))
                  ELSE ListDeployedFromNoTest(pipeline, actual, i + 1, deployed)

\* [ok, val]; ok is FALSE when the unpacking of namespace.split('.') raises
RECURSIVE ListDeployedFrom(_, _, _, _)
ListDeployedFrom(pipeline, actual, i, deployed) ==
    IF i > Len(pipeline) THEN [ok |-> TRUE, val |-> deployed]
    ELSE LET namespace == pipeline[i]
             parts == Split(namespace, ".")
         IN  IF Len(parts) # 2
             THEN [ok |-> FALSE, val |-> <<>>]
             ELSE IF IsDeployed(namespace, actual) /\ ~InList(parts[1], deployed)
                  THEN ListDeployedFrom(pipeline, actual, i + 1,
                                        Append(deployed, parts[1]))
                  ELSE ListDeployedFrom(pipeline, actual, i + 1, deployed)

ListDeployedClusters(pipeline, actual) ==
    ListDeployedFrom(pipeline, actual, 1, <<>>)

----------------------------------------------------------------------------
(* get_actual_deployments *)

\* mutant of ShaOfImage: cuts after the first '-' instead of the last
ShaOfImageFirstDash(value) == SliceFrom(value, Find(value, <<"-">>) + 1)

\* value[value.rfind('-') + 1:]
ShaOfImage(value) == SliceFrom(value, RFind(value, "-") + 1)

\* namespace.replace('paasta-', '', 1)
StripPaasta(namespace) == ReplaceFirst(namespace, PAASTA_PREFIX)

\* actual_deployments[key] = sha
DictSet(d, key, value) ==
    [k \in (DOMAIN d) \cup {key} |-> IF k = key THEN value ELSE d[k]]

EmptyDict == [k \in {} |-> <<>>]

\* the loop over the keys of deployments_json, visited in the order `order`:
\* [ok, val]; ok is FALSE when the unpacking of key.split(':') raises
RECURSIVE ActualFrom(_, _, _, _, _)
ActualFrom(json, service, order, i, actual) ==
    IF i > Len(order) THEN [ok |-> TRUE, val |-> actual]
    ELSE LET key == order[i]
             parts == Split(key, ":")
         IN  IF Len(parts) # 2
             THEN [ok |-> FALSE, val |-> EmptyDict]
             ELSE IF parts[1] = service
                  THEN ActualFrom(json, service, order, i + 1,
                           DictSet(actual, StripPaasta(parts[2]),
                                   ShaOfImage(json[key])))
                  ELSE ActualFrom(json, service, order, i + 1, actual)

GetActualDeployments(json, service, order) ==
    ActualFrom(json, service, order, 1, EmptyDict)

\* the orders in which a dict's keys can be visited
KeyOrders(json) ==
    LET n == Cardinality(DOMAIN json)
    IN  {o \in [1..n -> DOMAIN json] : \A i, j \in 1..n : i # j => o[i] # o[j]}

----------------------------------------------------------------------------
(* report_bogus_filters *)

\* mutant of BogusClusters: a filter entry given twice is named once
RECURSIVE BogusClustersOnce(_, _)
BogusClustersOnce(filter_list, deployed) ==
    IF filter_list = <<>> THEN <<>>
    ELSE (IF \/ InList(filter_list[1], deployed)
             \/ InList(filter_list[1], Tail(filter_list))
          THEN <<>> ELSE <<filter_list[1]>>)
         \o BogusClustersOnce(Tail(filter_list), deployed)

\* the list bogus_clusters
RECURSIVE BogusClusters(_, _)
BogusClusters(filter_list, deployed) ==
    IF filter_list = <<>> THEN <<>>
    ELSE (IF InList(filter_list[1], deployed) THEN <<>> ELSE <<filter_list[1]>>)
         \o BogusClusters(Tail(filter_list), deployed)

\* return_string
ReportBogusFilters(filter, deployed) ==
    IF filter.none THEN <<>>
    ELSE LET bogus_clusters == BogusClusters(filter.list, deployed)
         IN  IF Len(bogus_clusters) > 0
             THEN BOGUS_HEADER \o Join(bogus_clusters, ",")
             ELSE <<>>

----------------------------------------------------------------------------
(* Inputs *)

NONE_TEXT == <<"N", "o", "n", "e">>

SERVICE == <<"s">>

NsAM == <<"a", ".", "m">>
NsAC == <<"a", ".", "c">>
NsBM == <<"b", ".", "m">>
NsNoDot == <<"a", "b">>
NsTwoDots == <<"a", ".", "b", ".", "m">>

ShaLong == <<"0", "1", "2", "3", "4", "5", "6", "7", "8", "9">>
ShaShort == <<"a", "b", "c">>

ImageLong == <<"r", "-", "s", "-">> \o ShaLong
ImageNoDash == <<"i", "m", "g">>
ImageDashLast == <<"x", "-">>

\* how a call of execute_paasta_serviceinit_on_remote_master can end: it
\* returns a status text or fails
ProbeResults == {"returned", "raised"}

\* the status texts the remote master can answer with
ProbeTexts == {<<"u", "p">>, <<"u", "p", "\n", "o", "k", "\f", "\n">>}

SeqsUpTo(S, n) == UNION {[1..k -> S] : k \in 0..n}

SubsetsUpTo(S, n) == {T \in SUBSET S : Cardinality(T) <= n}

NoneArg == [none |-> TRUE, text |-> <<>>]
NoneFilter == [none |-> TRUE, list |-> <<>>]

\* the state of a call that has not run yet
Idle ==
    /\ exc = "none"
    /\ exit_code = -1
    /\ actual_deployments = EmptyDict
    /\ deploy_pipeline = <<>>
    /\ cluster_filter = NoneFilter
    /\ deployed_clusters = <<>>
    /\ ci = 0
    /\ ni = 0
    /\ stdout = <<>>
    /\ stderr = <<>>
    /\ probes = <<>>
    /\ called = {}

----------------------------------------------------------------------------
(* report_status and report_status_for_cluster *)

Raise(name) ==
    /\ pc' = "raised"
    /\ exc' = name

\* report_status up to the loop over the deployed clusters
ReportStatusBegin ==
    /\ pc = "report_status"
    /\ called' = called \cup {"report_status", "list_deployed_clusters"}
    /\ stdout' = Append(stdout, Line("pipeline_url", service_name, "none"))
    /\ LET r == ListDeployedClusters(deploy_pipeline, actual_deployments)
       IN  IF r.ok
           THEN /\ deployed_clusters' = r.val
                /\ ci' = 1
                /\ pc' = "clusters"
                /\ exc' = exc
           ELSE /\ Raise("ValueError")
                /\ UNCHANGED <<deployed_clusters, ci>>
    /\ UNCHANGED <<service_name, deployments_json, deploy_info, clusters_arg,
                   verbose, exit_code, actual_deployments, deploy_pipeline,
                   cluster_filter, ni, stderr, probes>>

\* cluster_filter is None or cluster in cluster_filter
PassesFilter(cluster, filter) == filter.none \/ InList(cluster, filter.list)

\* a deployed cluster that the filter leaves out
ClusterFiltered ==
    /\ pc = "clusters"
    /\ ci <= Len(deployed_clusters)
    /\ ~PassesFilter(deployed_clusters[ci], cluster_filter)
    /\ ci' = ci + 1
    /\ UNCHANGED <<service_name, deployments_json, deploy_info, clusters_arg,
                   verbose, pc, exc, exit_code, actual_deployments,
                   deploy_pipeline, cluster_filter, deployed_clusters, ni,
                   stdout, stderr, probes, called>>

\* report_status_for_cluster up to its loop
ClusterBegin ==
    /\ pc = "clusters"
    /\ ci <= Len(deployed_clusters)
    /\ PassesFilter(deployed_clusters[ci], cluster_filter)
    /\ called' = called \cup {"report_status_for_cluster"}
    /\ stdout' = stdout \o <<Line("blank", <<>>, "none"),
                             Line("cluster", deployed_clusters[ci], "none")>>
    /\ ni' = 1
    /\ pc' = "instances"
    /\ UNCHANGED <<service_name, deployments_json, deploy_info, clusters_arg,
                   verbose, exc, exit_code, actual_deployments,
                   deploy_pipeline, cluster_filter, deployed_clusters, ci,
                   stderr, probes>>

InLoop ==
    /\ pc = "instances"
    /\ ni <= Len(deploy_pipeline)

CurrentParts == Split(deploy_pipeline[ni], ".")

InCurrentCluster == CurrentParts[1] = deployed_clusters[ci]

\* cluster_in_pipeline != cluster: continue
InstanceOtherCluster ==
    /\ InLoop
    /\ Len(CurrentParts) = 2
    /\ ~InCurrentCluster
    /\ ni' = ni + 1
    /\ UNCHANGED <<service_name, deployments_json, deploy_info, clusters_arg,
                   verbose, pc, exc, exit_code, actual_deployments,
                   deploy_pipeline, cluster_filter, deployed_clusters, ci,
                   stdout, stderr, probes, called>>

ProbeCall(result) ==
    [cluster |-> deployed_clusters[ci], service |-> service_name,
     instance |-> CurrentParts[2], verbose |-> verbose, result |-> result]

\* mutant of ShownVersion: the sha as stored, not cut
ShownVersionWhole(namespace, actual) == actual[namespace]

\* the version shown for a deployed namespace
ShownVersion(namespace, actual) == SliceTo(actual[namespace], ShaDisplayLen)

\* the lines printed for a status text
StatusLines(status) ==
    LET lines == Split(RStrip(status), "\n")
    IN  [k \in 1..Len(lines) |-> Line("status", lines[k], "none")]

\* a deployed namespace whose remote call returns a status text
InstanceDeployed ==
    /\ InLoop
    /\ Len(CurrentParts) = 2
    /\ InCurrentCluster
    /\ IsDeployed(deploy_pipeline[ni], actual_deployments)
    /\ \E status \in ProbeTexts :
          stdout' = stdout
                    \o <<Line("instance", CurrentParts[2], "blue"),
                         Line("sha", ShownVersion(deploy_pipeline[ni],
                                                  actual_deployments), "none")>>
                    \o StatusLines(status)
    /\ "returned" \in ProbeResults
    /\ probes' = Append(probes, ProbeCall("returned"))
    /\ ni' = ni + 1
    /\ UNCHANGED <<service_name, deployments_json, deploy_info, clusters_arg,
                   verbose, pc, exc, exit_code, actual_deployments,
                   deploy_pipeline, cluster_filter, deployed_clusters, ci,
                   stderr, called>>

\* a deployed namespace whose remote call fails: nothing catches the error
InstanceProbeFails ==
    /\ InLoop
    /\ Len(CurrentParts) = 2
    /\ InCurrentCluster
    /\ IsDeployed(deploy_pipeline[ni], actual_deployments)
    /\ "raised" \in ProbeResults
    /\ probes' = Append(probes, ProbeCall("raised"))
    /\ Raise("ProbeError")
    /\ UNCHANGED <<service_name, deployments_json, deploy_info, clusters_arg,
                   verbose, exit_code, actual_deployments, deploy_pipeline,
                   cluster_filter, deployed_clusters, ci, ni, stdout, stderr,
                   called>>

\* a namespace of this cluster that is not deployed
InstanceNotDeployed ==
    /\ InLoop
    /\ Len(CurrentParts) = 2
    /\ InCurrentCluster
    /\ ~IsDeployed(deploy_pipeline[ni], actual_deployments)
    /\ stdout' = stdout \o <<Line("instance", CurrentParts[2], "red"),
                             Line("sha", NONE_TEXT, "none")>>
    /\ ni' = ni + 1
    /\ UNCHANGED <<service_name, deployments_json, deploy_info, clusters_arg,
                   verbose, pc, exc, exit_code, actual_deployments,
                   deploy_pipeline, cluster_filter, deployed_clusters, ci,
                   stderr, probes, called>>

\* report_status_for_cluster returns
ClusterEnd ==
    /\ pc = "instances"
    /\ ni > Len(deploy_pipeline)
    /\ ci' = ci + 1
    /\ pc' = "clusters"
    /\ UNCHANGED <<service_name, deployments_json, deploy_info, clusters_arg,
                   verbose, exc, exit_code, actual_deployments,
                   deploy_pipeline, cluster_filter, deployed_clusters, ni,
                   stdout, stderr, probes, called>>

\* print report_bogus_filters(cluster_filter, deployed_clusters)
ReportStatusEnd ==
    /\ pc = "clusters"
    /\ ci > Len(deployed_clusters)
    /\ called' = called \cup {"report_bogus_filters"}
    /\ stdout' = Append(stdout,
                        Line("bogus", ReportBogusFilters(cluster_filter,
                                                         deployed_clusters),
                             "none"))
    /\ pc' = "done"
    /\ UNCHANGED <<service_name, deployments_json, deploy_info, clusters_arg,
                   verbose, exc, exit_code, actual_deployments,
                   deploy_pipeline, cluster_filter, deployed_clusters, ci, ni,
                   stderr, probes>>

ReportNext ==
    \/ ReportStatusBegin
    \/ ClusterFiltered
    \/ ClusterBegin
    \/ InstanceOtherCluster
    \/ InstanceDeployed
    \/ InstanceProbeFails
    \/ InstanceNotDeployed
    \/ ClusterEnd
    \/ ReportStatusEnd

\* report_status called on a pipeline, the actual deployments and a filter
ReportTargets == {NsAM, NsAC, NsBM, NsNoDot}

ReportSha(namespace) == IF namespace = NsAM THEN ShaLong ELSE ShaShort

ReportActuals ==
    {[k \in T |-> ReportSha(k)] : T \in SubsetsUpTo({NsAM, NsAC, NsBM}, MaxActual)}

ReportFilters ==
    {NoneFilter} \cup
    {[none |-> FALSE, list |-> l] : l \in SeqsUpTo({<<"a">>, <<"z">>}, MaxFilter)}

ReportInit ==
    /\ service_name = SERVICE
    /\ deployments_json = EmptyDict
    /\ deploy_info = [present |-> FALSE, pipeline |-> <<>>]
    /\ clusters_arg = NoneArg
    /\ verbose = FALSE
    /\ exc = "none"
    /\ exit_code = -1
    /\ actual_deployments \in ReportActuals
    /\ deploy_pipeline \in SeqsUpTo(ReportTargets, MaxTargets)
    /\ cluster_filter \in ReportFilters
    /\ deployed_clusters = <<>>
    /\ ci = 0
    /\ ni = 0
    /\ stdout = <<>>
    /\ stderr = <<>>
    /\ probes = <<>>
    /\ called = {}
    /\ pc = "report_status"

SpecReport == ReportInit /\ [][ReportNext]_vars

----------------------------------------------------------------------------
(* get_planned_deployments called on a raw pipeline *)

PlanNamespaces == {ITEST, SECURITY_CHECK, NsAM, NsAC, NsBM, NsNoDot, NsTwoDots}

PlannedInit ==
    /\ service_name = SERVICE
    /\ deployments_json = EmptyDict
    /\ deploy_info \in {[present |-> TRUE, pipeline |-> p] :
                           p \in SeqsUpTo(PlanNamespaces, MaxSteps)}
    /\ clusters_arg = NoneArg
    /\ verbose = FALSE
    /\ Idle
    /\ pc = "get_planned_deployments"

\* deploy_pipeline = list(get_planned_deployments(deploy_info))
CallGetPlannedDeployments ==
    /\ pc = "get_planned_deployments"
    /\ called' = called \cup {"get_planned_deployments"}
    /\ LET r == GetPlannedDeployments(deploy_info.pipeline)
       IN  IF r.ok
           THEN /\ deploy_pipeline' = r.val
                /\ pc' = "returned"
                /\ exc' = exc
           ELSE /\ Raise("ValueError")
                /\ UNCHANGED deploy_pipeline
    /\ UNCHANGED <<service_name, deployments_json, deploy_info, clusters_arg,
                   verbose, exit_code, actual_deployments, cluster_filter,
                   deployed_clusters, ci, ni, stdout, stderr, probes>>

SpecPlanned == PlannedInit /\ [][CallGetPlannedDeployments]_vars

----------------------------------------------------------------------------
(* get_actual_deployments called on a raw deployments record *)

Key(service, namespace) == service \o <<":">> \o namespace

OTHER_SERVICE == <<"t">>

RawKeys ==
    {Key(SERVICE, PAASTA_PREFIX \o NsAM),
     Key(SERVICE, NsAM),
     Key(SERVICE, <<"a", ".">> \o PAASTA_PREFIX \o <<"m">>),
     Key(SERVICE, PAASTA_PREFIX \o PAASTA_PREFIX \o NsAM),
     Key(OTHER_SERVICE, PAASTA_PREFIX \o NsAM),
     Key(OTHER_SERVICE, NsBM),
     SERVICE,
     Key(SERVICE, <<"a", ":", "m">>)}

Images == {ImageLong, ImageNoDash, ImageDashLast}

RawRecords ==
    UNION {[T -> Images] : T \in SubsetsUpTo(RawKeys, MaxKeys)}

ActualInit ==
    /\ service_name = SERVICE
    /\ deployments_json \in RawRecords
    /\ deploy_info = [present |-> FALSE, pipeline |-> <<>>]
    /\ clusters_arg = NoneArg
    /\ verbose = FALSE
    /\ Idle
    /\ pc = "get_actual_deployments"

\* get_actual_deployments(service_name), entered at `at`, returning to `to`
GetActualDeploymentsCall(at, to) ==
    /\ pc = at
    /\ called' = called \cup {"get_actual_deployments"}
    /\ stderr' = IF DOMAIN deployments_json = {}
                 THEN Append(stderr, "not_deployed_anywhere_warning")
                 ELSE stderr
    /\ \E order \in KeyOrders(deployments_json) :
          LET r == GetActualDeployments(deployments_json, service_name, order)
          IN  IF r.ok
              THEN /\ actual_deployments' = r.val
                   /\ pc' = to
                   /\ exc' = exc
              ELSE /\ Raise("ValueError")
                   /\ UNCHANGED actual_deployments
    /\ UNCHANGED <<service_name, deployments_json, deploy_info, clusters_arg,
                   verbose, exit_code, deploy_pipeline, cluster_filter,
                   deployed_clusters, ci, ni, stdout, probes>>

CallGetActualDeployments ==
    GetActualDeploymentsCall("get_actual_deployments", "returned")

SpecActual == ActualInit /\ [][CallGetActualDeployments]_vars

----------------------------------------------------------------------------
(* paasta_status *)

FlowEntries ==
    {<<Key(SERVICE, PAASTA_PREFIX \o NsAM), ImageLong>>,
     <<Key(SERVICE, NsBM), ImageNoDash>>,
     <<Key(OTHER_SERVICE, PAASTA_PREFIX \o NsAC), ImageLong>>,
     <<SERVICE, ImageNoDash>>}

FlowRecords ==
    {[k \in {e[1] : e \in T} |-> (CHOOSE e \in T : e[1] = k)[2]] :
        T \in SubsetsUpTo(FlowEntries, FlowKeys)}

FlowNamespaces == {ITEST, NsAM, NsAC, NsBM, NsNoDot}

FlowDeployInfos ==
    {[present |-> FALSE, pipeline |-> <<>>]} \cup
    {[present |-> TRUE, pipeline |-> p] :
        p \in SeqsUpTo(FlowNamespaces, FlowSteps)}

FlowClusterArgs ==
    {NoneArg} \cup
    {[none |-> FALSE, text |-> t] :
        t \in {<<>>, <<"a">>, <<"a", ",", "z">>, <<"z", ",", "b">>}}

Init ==
    /\ service_name = SERVICE
    /\ deployments_json \in FlowRecords
    /\ deploy_info \in FlowDeployInfos
    /\ clusters_arg \in FlowClusterArgs
    /\ verbose \in BOOLEAN
    /\ Idle
    /\ pc = "paasta_status"

\* actual_deployments = get_actual_deployments(service_name)
PaastaStatusBegin ==
    GetActualDeploymentsCall("paasta_status", "get_deploy_info")

\* deploy_info = get_deploy_info(service_name)
GetDeployInfo ==
    /\ pc = "get_deploy_info"
    /\ called' = called \cup {"get_deploy_info"}
    /\ IF deploy_info.present
       THEN /\ pc' = "cluster_filter"
            /\ UNCHANGED <<stdout, exit_code>>
       ELSE /\ stdout' = Append(stdout, Line("deploy_yaml_missing", <<>>, "none"))
            /\ exit_code' = 1
            /\ pc' = "exited"
    /\ UNCHANGED <<service_name, deployments_json, deploy_info, clusters_arg,
                   verbose, exc, actual_deployments, deploy_pipeline,
                   cluster_filter, deployed_clusters, ci, ni, stderr, probes>>

\* args.clusters.split(",") or None
ClusterFilterOf(arg) ==
    IF arg.none THEN NoneFilter
    ELSE [none |-> FALSE, list |-> Split(arg.text, ",")]

\* mutant of HasDeployments: `if actual_deployments is not None`, which an
\* empty dict passes
HasDeploymentsNotNone(actual) == TRUE

\* if actual_deployments: a dict is true when it is not empty
HasDeployments(actual) == DOMAIN actual # {}

\* the rest of paasta_status up to the call of report_status
PaastaStatusBranch ==
    /\ pc = "cluster_filter"
    /\ cluster_filter' = ClusterFilterOf(clusters_arg)
    /\ IF HasDeployments(actual_deployments)
       THEN /\ called' = called \cup {"get_planned_deployments"}
            /\ LET r == GetPlannedDeployments(deploy_info.pipeline)
               IN  IF r.ok
                   THEN /\ deploy_pipeline' = r.val
                        /\ pc' = "report_status"
                        /\ exc' = exc
                   ELSE /\ Raise("ValueError")
                        /\ UNCHANGED deploy_pipeline
            /\ UNCHANGED stdout
       ELSE /\ stdout' = Append(stdout, Line("no_deployments", service_name, "none"))
            /\ pc' = "done"
            /\ UNCHANGED <<called, deploy_pipeline, exc>>
    /\ UNCHANGED <<service_name, deployments_json, deploy_info, clusters_arg,
                   verbose, exit_code, actual_deployments, deployed_clusters,
                   ci, ni, stderr, probes>>

Next ==
    \/ PaastaStatusBegin
    \/ GetDeployInfo
    \/ PaastaStatusBranch
    \/ ReportStatusBegin
    \/ ClusterFiltered
    \/ ClusterBegin
    \/ InstanceOtherCluster
    \/ InstanceDeployed
    \/ InstanceProbeFails
    \/ InstanceNotDeployed
    \/ ClusterEnd
    \/ ReportStatusEnd

Spec == Init /\ [][Next]_vars

----------------------------------------------------------------------------
(* What the properties speak of, said without the code's own helpers *)

DotCount(namespace) ==
    Cardinality({i \in 1..Len(namespace) : namespace[i] = "."})

WellFormed(namespace) == DotCount(namespace) = 1

DotAt(namespace) == CHOOSE i \in 1..Len(namespace) : namespace[i] = "."

\* of a well-formed 'cluster.instance'
ClusterPart(target) == SubSeq(target, 1, DotAt(target) - 1)

InstancePart(target) == SubSeq(target, DotAt(target) + 1, Len(target))

IsNonDeploy(namespace) == namespace = ITEST \/ namespace = SECURITY_CHECK

\* the deploy steps of a raw pipeline, in declaration order
DeploySteps(raw) == SelectSeq(raw, LAMBDA n : ~IsNonDeploy(n))

\* the targets of one cluster, in order
OfCluster(targets, cluster) ==
    SelectSeq(targets, LAMBDA t : ClusterPart(t) = cluster)

\* position of the first target of a cluster
FirstOf(targets, cluster) ==
    CHOOSE i \in 1..Len(targets) :
        /\ ClusterPart(targets[i]) = cluster
        /\ \A j \in 1..(i - 1) : ClusterPart(targets[j]) # cluster

----------------------------------------------------------------------------
(* Properties of get_planned_deployments, under SpecPlanned *)

\* C1: when get_planned_deployments returns, it has yielded exactly one
\* 'cluster.instance' target per deploy step: for every cluster the targets
\* of that cluster are the deploy steps of that cluster, duplicates kept and
\* in declaration order; the targets of one cluster are contiguous; and the
\* clusters come in the order of their first appearance in the raw steps.
C1_PlannedOrder ==
    pc = "returned" =>
        LET steps == DeploySteps(deploy_info.pipeline)
            out == deploy_pipeline
        IN  /\ Len(out) = Len(steps)
            /\ \A i \in 1..Len(out) : WellFormed(out[i])
            /\ \A i \in 1..Len(steps) :
                  OfCluster(out, ClusterPart(steps[i]))
                      = OfCluster(steps, ClusterPart(steps[i]))
            /\ \A i, j, k \in 1..Len(out) :
                  (i < j /\ j < k /\ ClusterPart(out[i]) = ClusterPart(out[k]))
                      => ClusterPart(out[j]) = ClusterPart(out[i])
            /\ \A i, j \in 1..Len(out) :
                  FirstOf(out, ClusterPart(out[i])) < FirstOf(out, ClusterPart(out[j]))
                      <=> FirstOf(steps, ClusterPart(out[i]))
                              < FirstOf(steps, ClusterPart(out[j]))

\* a pipeline with a non-deploy step, two clusters interleaved and a repeated
\* instance has been planned
C1_Witness ==
    /\ pc = "returned"
    /\ deploy_info.pipeline = <<ITEST, NsAM, NsBM, NsAM>>
    /\ deploy_pipeline = <<NsAM, NsAM, NsBM>>

\* C9: get_planned_deployments raises, having yielded no target, exactly when
\* some deploy step's namespace has no '.' or more than one '.'; a non-deploy
\* step never makes it raise.
C9_MalformedFails ==
    pc \in {"returned", "raised"} =>
        LET raw == deploy_info.pipeline
        IN  /\ (pc = "raised") <=>
                   \E i \in 1..Len(raw) : ~IsNonDeploy(raw[i]) /\ ~WellFormed(raw[i])
            /\ pc = "raised" => (deploy_pipeline = <<>> /\ exc = "ValueError")

\* a pipeline whose malformed step (two dots) follows a well-formed deploy
\* step and a non-deploy step has raised
C9_Witness ==
    /\ pc = "raised"
    /\ deploy_pipeline = <<>>
    /\ \E i, j, k \in 1..Len(deploy_info.pipeline) :
          /\ i < k /\ j < k
          /\ deploy_info.pipeline[i] = NsAM
          /\ deploy_info.pipeline[j] = ITEST
          /\ deploy_info.pipeline[k] = NsTwoDots

----------------------------------------------------------------------------
(* Properties of get_actual_deployments, under SpecActual *)

ColonAt(key) == CHOOSE i \in 1..Len(key) : key[i] = ":"

\* of a raw key 'service:namespace'
ServicePart(key) == SubSeq(key, 1, ColonAt(key) - 1)

NamespacePart(key) == SubSeq(key, ColonAt(key) + 1, Len(key))

\* the keys of the raw record that belong to the queried service
OwnKeys == {k \in DOMAIN deployments_json : ServicePart(k) = service_name}

\* the part of an image reference after its last '-', all of it without one
AfterLastDash(image) ==
    LET k == CHOOSE k \in 0..Len(image) :
                 /\ k = 0 \/ image[k] = "-"
                 /\ \A j \in (k + 1)..Len(image) : image[j] # "-"
    IN  SubSeq(image, k + 1, Len(image))

\* the result key that the raw key k is stored under
EntryOf(k) == StripPaasta(NamespacePart(k))

\* C8: when get_actual_deployments returns, every key of the queried service
\* has its entry in the result, every entry of the result comes from a key of
\* the queried service and from no key of another service, and its value is
\* the part of that key's docker_image after the last '-' (the whole image
\* when it has no '-').
C8_OwnServiceAndSha ==
    pc = "returned" =>
        /\ \A k \in OwnKeys : EntryOf(k) \in DOMAIN actual_deployments
        /\ \A n \in DOMAIN actual_deployments :
              \E k \in OwnKeys :
                  /\ EntryOf(k) = n
                  /\ actual_deployments[n] = AfterLastDash(deployments_json[k])
        /\ Cardinality(DOMAIN actual_deployments) <= Cardinality(OwnKeys)

\* a record with a key of the service whose image ends in '-<sha>', a key of
\* the service whose image has no '-', and a key of another service was read
C8_Witness ==
    /\ pc = "returned"
    /\ \E k1, k2 \in OwnKeys, k3 \in DOMAIN deployments_json :
          /\ deployments_json[k1] = ImageLong
          /\ actual_deployments[EntryOf(k1)] = ShaLong
          /\ deployments_json[k2] = ImageNoDash
          /\ actual_deployments[EntryOf(k2)] = ImageNoDash
          /\ k3 \notin OwnKeys
          /\ Cardinality(DOMAIN actual_deployments) = 2

\* a namespace without the literal 'paasta-' as its prefix
StripPrefixOnly(namespace) ==
    IF /\ Len(namespace) >= Len(PAASTA_PREFIX)
       /\ SubSeq(namespace, 1, Len(PAASTA_PREFIX)) = PAASTA_PREFIX
    THEN SubSeq(namespace, Len(PAASTA_PREFIX) + 1, Len(namespace))
    ELSE namespace

\* C10: the result keys are the namespaces of the service's raw keys with
\* 'paasta-' removed only as a prefix, and once; a namespace that does not
\* start with 'paasta-' is the key unchanged.
C10_PrefixOnly ==
    pc = "returned" =>
        DOMAIN actual_deployments = {StripPrefixOnly(NamespacePart(k)) : k \in OwnKeys}

----------------------------------------------------------------------------
(* Properties of report_status, under SpecReport *)

AllWellFormed == \A i \in 1..Len(deploy_pipeline) : WellFormed(deploy_pipeline[i])

\* positions of the deployed targets of a cluster in the pipeline
DeployedAt(cluster) ==
    {i \in 1..Len(deploy_pipeline) :
        /\ ClusterPart(deploy_pipeline[i]) = cluster
        /\ deploy_pipeline[i] \in DOMAIN actual_deployments}

Least(S) == CHOOSE i \in S : \A j \in S : i <= j

\* C2: once list_deployed_clusters has returned for well-formed targets, its
\* list has no duplicates, holds a cluster exactly when some target of that
\* cluster in the pipeline is a key of the actual deployments, and is ordered
\* by the position of each cluster's first deployed target.
C2_DeployedClusters ==
    (pc # "report_status" /\ AllWellFormed) =>
        /\ exc # "ValueError"
        /\ \A i, j \in 1..Len(deployed_clusters) :
              i # j => deployed_clusters[i] # deployed_clusters[j]
        /\ \A i \in 1..Len(deployed_clusters) :
              DeployedAt(deployed_clusters[i]) # {}
        /\ \A i \in 1..Len(deploy_pipeline) :
              DeployedAt(ClusterPart(deploy_pipeline[i])) # {}
                  => \E k \in 1..Len(deployed_clusters) :
                         deployed_clusters[k] = ClusterPart(deploy_pipeline[i])
        /\ \A i, j \in 1..Len(deployed_clusters) :
              i < j => Least(DeployedAt(deployed_clusters[i]))
                           < Least(DeployedAt(deployed_clusters[j]))

\* the pipeline starts with a target of cluster a that is not deployed, and
\* the deployed target of b comes before the deployed target of a
C2_Witness ==
    /\ pc # "report_status"
    /\ deploy_pipeline = <<NsAC, NsBM, NsAM>>
    /\ DOMAIN actual_deployments = {NsBM, NsAM}
    /\ deployed_clusters = <<<<"b">>, <<"a">>>>

\* the instance entries of the report, each with the cluster line it is under
RECURSIVE ParseFrom(_, _, _, _)
ParseFrom(out, i, cluster, items) ==
    IF i > Len(out) THEN items
    ELSE LET l == out[i]
             n == Len(items)
         IN  IF l.kind = "cluster"
             THEN ParseFrom(out, i + 1, l.text, items)
             ELSE IF l.kind = "instance"
             THEN ParseFrom(out, i + 1, cluster,
                      Append(items, [cluster |-> cluster, instance |-> l.text,
                                     color |-> l.color, sha |-> <<>>,
                                     shas |-> 0, status |-> <<>>]))
             ELSE IF l.kind = "sha" /\ n > 0
             THEN ParseFrom(out, i + 1, cluster,
                      [items EXCEPT ![n].sha = l.text, ![n].shas = @ + 1])
             ELSE IF l.kind = "status" /\ n > 0
             THEN ParseFrom(out, i + 1, cluster,
                      [items EXCEPT ![n].status = Append(@, l.text)])
             ELSE ParseFrom(out, i + 1, cluster, items)

ReportedItems == ParseFrom(stdout, 1, <<>>, <<>>)

TargetOf(item) == item.cluster \o <<".">> \o item.instance

ReportedTargets == [i \in 1..Len(ReportedItems) |-> TargetOf(ReportedItems[i])]

\* the cluster lines of the report
ReportedClusters ==
    LET ls == SelectSeq(stdout, LAMBDA l : l.kind = "cluster")
    IN  [i \in 1..Len(ls) |-> ls[i].text]

InFilter(cluster) ==
    cluster_filter.none
        \/ \E i \in 1..Len(cluster_filter.list) : cluster_filter.list[i] = cluster

\* the deployed clusters that pass the filter
ShownClusters == SelectSeq(deployed_clusters, InFilter)

\* the pipeline targets of the given clusters, cluster by cluster
RECURSIVE TargetsOfClusters(_)
TargetsOfClusters(clusters) ==
    IF clusters = <<>> THEN <<>>
    ELSE OfCluster(deploy_pipeline, clusters[1]) \o TargetsOfClusters(Tail(clusters))

Ended == pc \in {"done", "raised"}

\* C3: a finished report_status has emitted a cluster block for exactly the
\* deployed clusters that pass the filter, once each and in deployed-cluster
\* order, and under each cluster one instance line for every pipeline target
\* of that cluster and of no other, in pipeline order.
C3_BlocksAndInstances ==
    (Ended /\ AllWellFormed) =>
        /\ ReportedClusters = ShownClusters
        /\ ReportedTargets = TargetsOfClusters(ShownClusters)

\* what C3 says, of the reports in which every remote call returned
BlocksAndInstancesWhenDone ==
    pc = "done" =>
        /\ ReportedClusters = ShownClusters
        /\ ReportedTargets = TargetsOfClusters(ShownClusters)

ProbeFailed == \E i \in 1..Len(probes) : probes[i].result = "raised"

\* C4: after a remote call has failed for one instance the report goes on:
\* the failure is shown under that instance, and the report ends with every
\* cluster block, every instance line and the line of the filter warning.
C4_ProbeFailureIsolated ==
    ProbeFailed =>
        /\ pc # "raised"
        /\ \A i \in 1..Len(probes) :
              \E k \in 1..Len(ReportedItems) :
                  /\ ReportedItems[k].cluster = probes[i].cluster
                  /\ ReportedItems[k].instance = probes[i].instance
        /\ pc = "done" =>
              /\ ReportedClusters = ShownClusters
              /\ ReportedTargets = TargetsOfClusters(ShownClusters)
              /\ stdout[Len(stdout)].kind = "bogus"

\* the remote call is made for deployed targets only, once per blue line
ProbesMatchDeployedLines ==
    /\ \A i \in 1..Len(probes) :
          probes[i].cluster \o <<".">> \o probes[i].instance
              \in DOMAIN actual_deployments
    /\ Len(SelectSeq(probes, LAMBDA p : p.result = "returned"))
           = Len(SelectSeq(ReportedItems, LAMBDA it : it.color = "blue"))

\* C5 as stated: a reported target is shown as deployed exactly when its
\* 'cluster.instance' is a key of the actual deployments; a deployed target is
\* shown with the version actual[target]; the remote call is made for deployed
\* targets only; a target that is not deployed is shown with 'None' and no
\* status text.
C5_VersionIsActual ==
    /\ ProbesMatchDeployedLines
    /\ \A i \in 1..Len(ReportedItems) :
          LET it == ReportedItems[i]
              t == TargetOf(it)
          IN  /\ it.shas = 1
              /\ (it.color = "blue") <=> (t \in DOMAIN actual_deployments)
              /\ it.color \in {"blue", "red"}
              /\ it.color = "blue" => it.sha = actual_deployments[t]
              /\ it.color = "red" => (it.sha = NONE_TEXT /\ it.status = <<>>)

\* w is the first n characters of v, all of v when v is shorter
IsCutTo(w, v, n) ==
    /\ Len(w) = (IF Len(v) < n THEN Len(v) ELSE n)
    /\ \A i \in 1..Len(w) : w[i] = v[i]

\* C5 as the code has it: the version shown for a deployed target is the
\* first 8 characters of actual[target]; the rest as stated.
C5_VersionIsShaCutTo8 ==
    /\ ProbesMatchDeployedLines
    /\ \A i \in 1..Len(ReportedItems) :
          LET it == ReportedItems[i]
              t == TargetOf(it)
          IN  /\ it.shas = 1
              /\ (it.color = "blue") <=> (t \in DOMAIN actual_deployments)
              /\ it.color \in {"blue", "red"}
              /\ it.color = "blue" => IsCutTo(it.sha, actual_deployments[t], 8)
              /\ it.color = "red" => (it.sha = NONE_TEXT /\ it.status = <<>>)

\* a report with a deployed target whose sha is longer than 8 characters and
\* a target that is not deployed
C5_Witness ==
    /\ pc = "done"
    /\ \E i, j \in 1..Len(ReportedItems) :
          /\ ReportedItems[i].color = "blue"
          /\ Len(actual_deployments[TargetOf(ReportedItems[i])]) > 8
          /\ ReportedItems[i].status # <<>>
          /\ ReportedItems[j].color = "red"
          /\ TargetOf(ReportedItems[j]) \notin DOMAIN actual_deployments

\* the filter entries that are not deployed clusters, in the filter's order
NotDeployedEntries ==
    SelectSeq(cluster_filter.list,
              LAMBDA c : \A i \in 1..Len(deployed_clusters) : deployed_clusters[i] # c)

BogusLines == SelectSeq(stdout, LAMBDA l : l.kind = "bogus")

\* C7 as stated: the warning names exactly the filter entries that are not
\* deployed clusters, in the filter's order; it is empty when the filter is
\* None or every entry is a deployed cluster; and it is appended to the report
\* only when it is not empty.
C7_AppendedOnlyWhenNotEmpty ==
    pc = "done" =>
        IF cluster_filter.none \/ NotDeployedEntries = <<>>
        THEN BogusLines = <<>>
        ELSE /\ Len(BogusLines) = 1
             /\ <<BogusLines[1].text[1]>> = BOGUS_HEADER
             /\ Split(Tail(BogusLines[1].text), ",") = NotDeployedEntries

\* C7 as the code has it: the warning is as stated, and report_status prints
\* it as the last line of every finished report, also when it is empty: the
\* report then ends with an empty line. Nothing else prints it.
C7_BogusWarning ==
    /\ pc # "done" => BogusLines = <<>>
    /\ pc = "done" =>
          LET w == stdout[Len(stdout)].text
          IN  /\ Len(BogusLines) = 1
              /\ stdout[Len(stdout)].kind = "bogus"
              /\ IF cluster_filter.none \/ NotDeployedEntries = <<>>
                 THEN w = <<>>
                 ELSE /\ w # <<>>
                      /\ <<w[1]>> = BOGUS_HEADER
                      /\ Split(Tail(w), ",") = NotDeployedEntries

\* a report whose filter names the bogus cluster z before the deployed a
C7_Witness ==
    /\ pc = "done"
    /\ cluster_filter = [none |-> FALSE, list |-> <<<<"z">>, <<"a">>>>]
    /\ deployed_clusters = <<<<"a">>>>
    /\ stdout[Len(stdout)].text = BOGUS_HEADER \o <<"z">>

----------------------------------------------------------------------------
(* Properties of paasta_status, under Spec *)

\* paasta_status has ended, get_actual_deployments having returned {}
EndedWithoutDeployments ==
    /\ pc \in {"done", "exited"}
    /\ DOMAIN actual_deployments = {}

NothingReported ==
    /\ probes = <<>>
    /\ "get_planned_deployments" \notin called
    /\ "report_status" \notin called
    /\ \A i \in 1..Len(stdout) :
          stdout[i].kind \notin {"cluster", "instance", "sha", "status", "bogus"}

\* C6 as stated: when the actual deployments are empty, paasta_status ends
\* with the single 'no deployments yet' message whatever the pipeline is: no
\* cluster block, no instance line, no filter warning, no remote call, and
\* get_planned_deployments is not run.
C6_NoDeploymentsMessage ==
    EndedWithoutDeployments =>
        /\ pc = "done"
        /\ stdout = <<Line("no_deployments", service_name, "none")>>
        /\ NothingReported

\* C6 as the code has it: get_deploy_info runs before the test of the actual
\* deployments, so the 'no deployments yet' message is the outcome when
\* deploy.yaml was read; when it was not, the outcome is the message that
\* deploy.yaml is missing and exit(1). Nothing is reported in either case.
C6_NoDeploymentsAfterDeployInfo ==
    EndedWithoutDeployments =>
        /\ NothingReported
        /\ IF deploy_info.present
           THEN /\ pc = "done"
                /\ exit_code = -1
                /\ stdout = <<Line("no_deployments", service_name, "none")>>
           ELSE /\ pc = "exited"
                /\ exit_code = 1
                /\ stdout = <<Line("deploy_yaml_missing", <<>>, "none")>>

\* the record holds another service's deployment only, the pipeline has a
\* deploy step and a malformed step, a filter is given, and paasta_status
\* has ended with the message
C6_Witness ==
    /\ pc = "done"
    /\ DOMAIN actual_deployments = {}
    /\ DOMAIN deployments_json # {}
    /\ deploy_info.pipeline = <<NsAM, NsNoDot>>
    /\ ~clusters_arg.none
    /\ stdout = <<Line("no_deployments", service_name, "none")>>

====
